---- MODULE Spec2Model ----
(***************************************************************************)
(* Bidirectional PI voltage regulation of a feeder energy-storage unit     *)
(* (voltage_control.cpp) and the CSV configuration loader program.         *)
(*                                                                         *)
(* Numbers are fixed point, exact on the grid used:                        *)
(*   voltages          whole volts                                         *)
(*   powers, integrals watts        (125.0 kW  = 125000)                   *)
(*   Kp_*, Ki_*        watts / volt (0.1 kW/V  = 100)                      *)
(*   SOC, SOC_*        1/600        (0.05 = 30, 0.95 = 570, 0.15 = 90)     *)
(* cos(M_PI * x) is tabulated at x = k/30 in thousandths; a product of a    *)
(* power with a curve factor is rounded down to a whole watt.              *)
(***************************************************************************)
EXTENDS Integers, Sequences, FiniteSets, TLC

VARIABLES prog, cfg_file, pc, load_ret, warnings, sys_cfg,
          realtime_status, ctrl_state, P_cmd, pre_state, run, tick

vars == <<prog, cfg_file, pc, load_ret, warnings, sys_cfg,
          realtime_status, ctrl_state, P_cmd, pre_state, run, tick>>

\* number of control-loop iterations explored (the loop itself is while(1))
MaxTicks == 3

------------------------------------------------------------------------------
(* SystemConfig_Cfg: the 14 fields, in the order of the struct *)
Fields ==
  << "V_ref_upper", "V_ref_lower", "Deadband_upper", "Deadband_lower",
     "V_enter_lower", "Kp_upper", "Ki_upper", "Kp_lower", "Ki_lower",
     "P_step_max", "P_charge_max", "P_discharge_max", "SOC_max", "SOC_min" >>

RequiredFields == { Fields[i] : i \in 1..Len(Fields) }

\* the three JSON objects load_configuration requires
Sections == { "voltage_settings", "pi_controller", "power_limits" }

\* a global SystemConfig_Cfg before any loader has written to it
ZeroCfg == [ f \in RequiredFields |-> 0 ]

------------------------------------------------------------------------------
(* Mode classification *)

Determine_CtrlMode_NoGuard(V_meas, cfg) ==
  IF V_meas > (cfg.V_ref_upper + cfg.Deadband_upper) THEN 1
  ELSE IF V_meas < (cfg.V_ref_lower - cfg.Deadband_lower) THEN 2
  ELSE 0

Determine_CtrlMode_Inclusive(V_meas, cfg) ==
  IF V_meas >= (cfg.V_ref_upper + cfg.Deadband_upper) THEN 1
  ELSE IF V_meas < (cfg.V_ref_lower - cfg.Deadband_lower)
          /\ V_meas > cfg.V_enter_lower THEN 2
  ELSE 0

Determine_CtrlMode(V_meas, cfg) ==
  IF V_meas > (cfg.V_ref_upper + cfg.Deadband_upper) THEN 1
  ELSE IF V_meas < (cfg.V_ref_lower - cfg.Deadband_lower)
          /\ V_meas > cfg.V_enter_lower THEN 2
  ELSE 0

------------------------------------------------------------------------------
(* SOC power limits *)

\* 0.05f in SOC units of 1/600
charge_transition_width == 30
discharge_transition_width == 30

\* cos(M_PI * k / 30) in thousandths, k = 0 .. 30 (entry k + 1)
CosTable ==
  << 1000, 995, 978, 951, 914, 866, 809, 743,
     669, 588, 500, 407, 309, 208, 105, 0,
     -105, -208, -309, -407, -500, -588, -669, -743,
     -809, -866, -914, -951, -978, -995, -1000 >>

\* cos(M_PI * x) for x = num / 30 with 0 <= num <= 30
CosPi(num) == CosTable[num + 1]

Calculate_SOC_Power_Limits_WideBand(soc, cfg) ==
  LET charge_factor2 ==
        IF soc >= cfg.SOC_max THEN 0
        ELSE IF soc <= (cfg.SOC_max - charge_transition_width) THEN 2000
        ELSE 1000 + CosPi(soc - (cfg.SOC_max - charge_transition_width))
      discharge_factor2 ==
        IF soc <= cfg.SOC_min THEN 0
        ELSE IF soc >= (cfg.SOC_min + 2 * discharge_transition_width)
          THEN 2000
        ELSE 1000 - CosPi((soc - cfg.SOC_min) \div 2)
      charge == (cfg.P_charge_max * charge_factor2) \div 2000
      discharge == (cfg.P_discharge_max * discharge_factor2) \div 2000
  IN  [ charge_limit |-> IF charge < 0 THEN 0 ELSE charge,
        discharge_limit |-> IF discharge < 0 THEN 0 ELSE discharge ]

Calculate_SOC_Power_Limits_SignSlip(soc, cfg) ==
  LET charge_factor2 ==
        IF soc >= cfg.SOC_max THEN 0
        ELSE IF soc <= (cfg.SOC_max - charge_transition_width) THEN 2000
        ELSE 1000 - CosPi(soc - (cfg.SOC_max - charge_transition_width))
      discharge_factor2 ==
        IF soc <= cfg.SOC_min THEN 0
        ELSE IF soc >= (cfg.SOC_min + discharge_transition_width) THEN 2000
        ELSE 1000 - CosPi(soc - cfg.SOC_min)
      charge == (cfg.P_charge_max * charge_factor2) \div 2000
      discharge == (cfg.P_discharge_max * discharge_factor2) \div 2000
  IN  [ charge_limit |-> IF charge < 0 THEN 0 ELSE charge,
        discharge_limit |-> IF discharge < 0 THEN 0 ELSE discharge ]


\* charge_factor2 / discharge_factor2 are twice the factor, in thousandths
Calculate_SOC_Power_Limits(soc, cfg) ==
  LET charge_factor2 ==
        IF soc >= cfg.SOC_max THEN 0
        ELSE IF soc <= (cfg.SOC_max - charge_transition_width) THEN 2000
        ELSE 1000 + CosPi(soc - (cfg.SOC_max - charge_transition_width))
      discharge_factor2 ==
        IF soc <= cfg.SOC_min THEN 0
        ELSE IF soc >= (cfg.SOC_min + discharge_transition_width) THEN 2000
        ELSE 1000 - CosPi(soc - cfg.SOC_min)
      charge == (cfg.P_charge_max * charge_factor2) \div 2000
      discharge == (cfg.P_discharge_max * discharge_factor2) \div 2000
  IN  [ charge_limit |-> IF charge < 0 THEN 0 ELSE charge,
        discharge_limit |-> IF discharge < 0 THEN 0 ELSE discharge ]

------------------------------------------------------------------------------
(* The two PI controllers.  Each returns the command and the controller    *)
(* state it leaves behind.                                                 *)

Calculate_OverVoltage_Control_NoStep(status, cfg, state) ==
  LET raw == status.V_meas - (cfg.V_ref_upper + cfg.Deadband_upper)
      effective_error == IF raw < 0 THEN 0 ELSE raw
      integral == state.integral_upper + effective_error * cfg.Ki_upper
      P_calc == effective_error * cfg.Kp_upper + integral
      P1 == P_calc + status.P_meas
      P2 == IF P1 > status.P_soc_charge_limit
              THEN status.P_soc_charge_limit ELSE P1
      P3 == IF P2 > cfg.P_charge_max THEN cfg.P_charge_max ELSE P2
      P4 == IF P3 < 0 THEN 0 ELSE P3
  IN  [ P_cmd_final |-> P4,
        state |-> [ state EXCEPT !.integral_upper = integral ] ]

Calculate_OverVoltage_Control_NoSoc(status, cfg, state) ==
  LET raw == status.V_meas - (cfg.V_ref_upper + cfg.Deadband_upper)
      effective_error == IF raw < 0 THEN 0 ELSE raw
      integral == state.integral_upper + effective_error * cfg.Ki_upper
      P_calc0 == effective_error * cfg.Kp_upper + integral
      P_calc == IF P_calc0 > cfg.P_step_max THEN cfg.P_step_max ELSE P_calc0
      P1 == P_calc + status.P_meas
      P3 == IF P1 > cfg.P_charge_max THEN cfg.P_charge_max ELSE P1
      P4 == IF P3 < 0 THEN 0 ELSE P3
  IN  [ P_cmd_final |-> P4,
        state |-> [ state EXCEPT !.integral_upper = integral ] ]

Calculate_OverVoltage_Control_StaleIntegral(status, cfg, state) ==
  LET raw == status.V_meas - (cfg.V_ref_upper + cfg.Deadband_upper)
      effective_error == IF raw < 0 THEN 0 ELSE raw
      integral == state.integral_upper + effective_error * cfg.Ki_upper
      P_calc0 == effective_error * cfg.Kp_upper + state.integral_upper
      P_calc == IF P_calc0 > cfg.P_step_max THEN cfg.P_step_max ELSE P_calc0
      P1 == P_calc + status.P_meas
      P2 == IF P1 > status.P_soc_charge_limit
              THEN status.P_soc_charge_limit ELSE P1
      P3 == IF P2 > cfg.P_charge_max THEN cfg.P_charge_max ELSE P2
      P4 == IF P3 < 0 THEN 0 ELSE P3
  IN  [ P_cmd_final |-> P4,
        state |-> [ state EXCEPT !.integral_upper = integral ] ]

Calculate_OverVoltage_Control_ClampIntegral(status, cfg, state) ==
  LET raw == status.V_meas - (cfg.V_ref_upper + cfg.Deadband_upper)
      effective_error == IF raw < 0 THEN 0 ELSE raw
      integral0 == state.integral_upper + effective_error * cfg.Ki_upper
      integral == IF integral0 > cfg.P_step_max THEN cfg.P_step_max
                  ELSE integral0
      P_calc0 == effective_error * cfg.Kp_upper + integral
      P_calc == IF P_calc0 > cfg.P_step_max THEN cfg.P_step_max ELSE P_calc0
      P1 == P_calc + status.P_meas
      P2 == IF P1 > status.P_soc_charge_limit
              THEN status.P_soc_charge_limit ELSE P1
      P3 == IF P2 > cfg.P_charge_max THEN cfg.P_charge_max ELSE P2
      P4 == IF P3 < 0 THEN 0 ELSE P3
  IN  [ P_cmd_final |-> P4,
        state |-> [ state EXCEPT !.integral_upper = integral ] ]


Calculate_OverVoltage_Control(status, cfg, state) ==
  LET raw == status.V_meas - (cfg.V_ref_upper + cfg.Deadband_upper)
      effective_error == IF raw < 0 THEN 0 ELSE raw
      integral == state.integral_upper + effective_error * cfg.Ki_upper
      P_calc0 == effective_error * cfg.Kp_upper + integral
      P_calc == IF P_calc0 > cfg.P_step_max THEN cfg.P_step_max ELSE P_calc0
      P1 == P_calc + status.P_meas
      P2 == IF P1 > status.P_soc_charge_limit
              THEN status.P_soc_charge_limit ELSE P1
      P3 == IF P2 > cfg.P_charge_max THEN cfg.P_charge_max ELSE P2
      P4 == IF P3 < 0 THEN 0 ELSE P3
  IN  [ P_cmd_final |-> P4,
        state |-> [ state EXCEPT !.integral_upper = integral ] ]

Calculate_UnderVoltage_Control_NoZeroCap(status, cfg, state) ==
  LET raw == (cfg.V_ref_lower - cfg.Deadband_lower) - status.V_meas
      effective_error == IF raw < 0 THEN 0 ELSE raw
      integral == state.integral_lower + effective_error * cfg.Ki_lower
      P_calc0 == effective_error * cfg.Kp_lower + integral
      P_calc == IF P_calc0 > cfg.P_step_max THEN cfg.P_step_max ELSE P_calc0
      P_cmd_target == status.P_meas - P_calc
      P_discharge_capacity ==
        IF status.P_soc_discharge_limit < cfg.P_discharge_max
          THEN status.P_soc_discharge_limit ELSE cfg.P_discharge_max
      P_cmd_lower_limit == 0 - P_discharge_capacity
      final == IF P_cmd_target < P_cmd_lower_limit THEN P_cmd_lower_limit
               ELSE P_cmd_target
  IN  [ P_cmd_final |-> final,
        state |-> [ state EXCEPT !.integral_lower = integral ] ]

Calculate_UnderVoltage_Control(status, cfg, state) ==
  LET raw == (cfg.V_ref_lower - cfg.Deadband_lower) - status.V_meas
      effective_error == IF raw < 0 THEN 0 ELSE raw
      integral == state.integral_lower + effective_error * cfg.Ki_lower
      P_calc0 == effective_error * cfg.Kp_lower + integral
      P_calc == IF P_calc0 > cfg.P_step_max THEN cfg.P_step_max ELSE P_calc0
      P_cmd_target == status.P_meas - P_calc
      P_discharge_capacity ==
        IF status.P_soc_discharge_limit < cfg.P_discharge_max
          THEN status.P_soc_discharge_limit ELSE cfg.P_discharge_max
      P_cmd_lower_limit == 0 - P_discharge_capacity
      final == IF P_cmd_target > 0 THEN 0
               ELSE IF P_cmd_target < P_cmd_lower_limit THEN P_cmd_lower_limit
               ELSE P_cmd_target
  IN  [ P_cmd_final |-> final,
        state |-> [ state EXCEPT !.integral_lower = integral ] ]

------------------------------------------------------------------------------
(* switch (ctrl_state.Ctrl_Mode) of Main_VoltageControlLoop; state already *)
(* carries the mode of this tick                                           *)

ControlDispatch_KeepUpper(status, cfg, state) ==
  CASE state.Ctrl_Mode = 0 ->
         [ P_cmd_final |-> 0,
           state |-> [ state EXCEPT !.integral_lower = 0 ] ]
    [] state.Ctrl_Mode = 1 -> Calculate_OverVoltage_Control(status, cfg, state)
    [] state.Ctrl_Mode = 2 -> Calculate_UnderVoltage_Control(status, cfg, state)
    [] OTHER -> [ P_cmd_final |-> 0, state |-> state ]

ControlDispatch_ResetInactive(status, cfg, state) ==
  CASE state.Ctrl_Mode = 0 ->
         [ P_cmd_final |-> 0,
           state |-> [ state EXCEPT !.integral_upper = 0,
                                    !.integral_lower = 0 ] ]
    [] state.Ctrl_Mode = 1 ->
         Calculate_OverVoltage_Control(status, cfg,
           [ state EXCEPT !.integral_lower = 0 ])
    [] state.Ctrl_Mode = 2 ->
         Calculate_UnderVoltage_Control(status, cfg,
           [ state EXCEPT !.integral_upper = 0 ])
    [] OTHER -> [ P_cmd_final |-> 0, state |-> state ]

ControlDispatch_ModeFromCommand(status, cfg, state) ==
  CASE state.Ctrl_Mode = 0 ->
         [ P_cmd_final |-> 0,
           state |-> [ state EXCEPT !.integral_upper = 0,
                                    !.integral_lower = 0 ] ]
    [] state.Ctrl_Mode = 1 ->
         LET r == Calculate_OverVoltage_Control(status, cfg, state)
         IN  IF r.P_cmd_final = 0
               THEN [ r EXCEPT !.state.Ctrl_Mode = 0 ] ELSE r
    [] state.Ctrl_Mode = 2 -> Calculate_UnderVoltage_Control(status, cfg, state)
    [] OTHER -> [ P_cmd_final |-> 0, state |-> state ]


ControlDispatch(status, cfg, state) ==
  CASE state.Ctrl_Mode = 0 ->
         [ P_cmd_final |-> 0,
           state |-> [ state EXCEPT !.integral_upper = 0,
                                    !.integral_lower = 0 ] ]
    [] state.Ctrl_Mode = 1 -> Calculate_OverVoltage_Control(status, cfg, state)
    [] state.Ctrl_Mode = 2 -> Calculate_UnderVoltage_Control(status, cfg, state)
    [] OTHER -> [ P_cmd_final |-> 0, state |-> state ]

------------------------------------------------------------------------------
(* Configuration sources.  A file is what fopen / fgets / cJSON_Parse see:  *)
(* its extension, whether it opens, whether it is well-formed JSON, which  *)
(* of the three JSON objects it holds, and its key/value entries in order  *)
(* (a CSV line, or a member of the JSON object the key belongs to).        *)

CfgA ==
  [ V_ref_upper |-> 241, V_ref_lower |-> 198, Deadband_upper |-> 2,
    Deadband_lower |-> 2, V_enter_lower |-> 160,
    Kp_upper |-> 1000, Ki_upper |-> 100, Kp_lower |-> 1000, Ki_lower |-> 100,
    P_step_max |-> 10000, P_charge_max |-> 125000,
    P_discharge_max |-> 125000, SOC_max |-> 570, SOC_min |-> 90 ]

CfgB ==
  [ V_ref_upper |-> 241, V_ref_lower |-> 198, Deadband_upper |-> 2,
    Deadband_lower |-> 2, V_enter_lower |-> 160,
    Kp_upper |-> 2000, Ki_upper |-> 1000, Kp_lower |-> 500, Ki_lower |-> 1000,
    P_step_max |-> 10000, P_charge_max |-> 12000,
    P_discharge_max |-> 6000, SOC_max |-> 570, SOC_min |-> 90 ]

\* thresholds inverted and a negative discharge rating
CfgBad ==
  [ V_ref_upper |-> 190, V_ref_lower |-> 250, Deadband_upper |-> 2,
    Deadband_lower |-> 2, V_enter_lower |-> 160,
    Kp_upper |-> 1000, Ki_upper |-> 100, Kp_lower |-> 1000, Ki_lower |-> 100,
    P_step_max |-> 10000, P_charge_max |-> 125000,
    P_discharge_max |-> (0 - 5000), SOC_max |-> 570, SOC_min |-> 90 ]

Line(k, v) == [ key |-> k, value |-> v, has_value |-> TRUE ]

FullLines(cfg) == [ i \in 1..Len(Fields) |-> Line(Fields[i], cfg[Fields[i]]) ]

Without(lines, k) == SelectSeq(lines, LAMBDA l : l.key # k)

File(ext, readable, wellformed, sections, lines) ==
  [ ext |-> ext, readable |-> readable, wellformed |-> wellformed,
    sections |-> sections, lines |-> lines ]

\* config.json as the control program may find it
JsonFiles ==
  { File(".json", TRUE, TRUE, Sections, FullLines(CfgA)),
    File(".json", TRUE, TRUE, Sections,
         FullLines(CfgA) \o << Line("comment", 1) >>),
    File(".json", TRUE, TRUE, Sections, FullLines(CfgB)),
    File(".json", TRUE, TRUE, Sections, FullLines(CfgBad)),
    File(".json", TRUE, TRUE, Sections, Without(FullLines(CfgA), "SOC_min")),
    File(".json", TRUE, TRUE, Sections \ { "power_limits" },
         SubSeq(FullLines(CfgA), 1, 9)),
    File(".json", TRUE, FALSE, {}, << >>),
    File(".json", FALSE, FALSE, {}, << >>) }

\* argv[1] of the CSV program
CsvFiles ==
  { File(".csv", TRUE, FALSE, {}, FullLines(CfgA)),
    File(".csv", TRUE, FALSE, {},
         FullLines(CfgA) \o << Line("comment", 1) >>),
    File(".csv", TRUE, FALSE, {}, Without(FullLines(CfgA), "SOC_min")),
    File(".csv", TRUE, FALSE, {},
         Without(FullLines(CfgA), "Kp_upper")
           \o << [ key |-> "Kp_upper", value |-> 0, has_value |-> FALSE ] >>),
    File(".csv", TRUE, FALSE, {}, << >>),
    File(".csv", FALSE, FALSE, {}, << >>),
    File(".json", TRUE, TRUE, Sections, FullLines(CfgA)),
    File(".txt", TRUE, FALSE, {}, FullLines(CfgA)) }

\* what a read through a null cJSON pointer may yield when it does not trap
GarbageValues == { 0 - 1, 0 }

Keys(file) == { file.lines[i].key : i \in 1..Len(file.lines) }

\* required fields for which the source carries a key with a value
PresentFields(file) ==
  { file.lines[i].key :
      i \in { j \in 1..Len(file.lines) : file.lines[j].has_value } }
    \cap RequiredFields

MissingFields(file) == RequiredFields \ PresentFields(file)

UnknownKeys(file) == Keys(file) \ RequiredFields

------------------------------------------------------------------------------
(* load_configuration_from_csv: the while (fgets) loop, one line at a time *)

RECURSIVE csv_lines(_, _)
csv_lines(lines, acc) ==
  IF lines = << >> THEN acc
  ELSE LET l == Head(lines)
           next ==
             IF l.has_value
               THEN IF l.key \in RequiredFields
                      THEN [ acc EXCEPT !.cfg[l.key] = l.value ]
                      ELSE [ acc EXCEPT !.warnings = @ + 1 ]
               ELSE [ acc EXCEPT !.warnings = @ + 1 ]
       IN  csv_lines(Tail(lines), next)

load_configuration_from_csv(file, cfg) ==
  IF ~file.readable THEN [ ret |-> 0 - 1, cfg |-> cfg, warnings |-> 0 ]
  ELSE LET r == csv_lines(file.lines, [ cfg |-> cfg, warnings |-> 0 ])
       IN  [ ret |-> 0, cfg |-> r.cfg, warnings |-> r.warnings ]

------------------------------------------------------------------------------
(* load_configuration (JSON) *)

\* cJSON_GetObjectItemCaseSensitive(obj, name)->valuedouble, first match
json_value(file, name) ==
  LET idx == { i \in 1..Len(file.lines) : file.lines[i].key = name }
      first == CHOOSE i \in idx : \A j \in idx : i <= j
  IN  file.lines[first].value

\* the early returns: fopen fails, cJSON_Parse fails, an object is missing
json_rejected(file) ==
  \/ ~file.readable
  \/ ~file.wellformed
  \/ file.sections # Sections

\* the 14 assignments; a field whose item is absent is read through NULL
load_configuration(file, cfg, garbage) ==
  IF json_rejected(file) THEN [ ret |-> 0 - 1, cfg |-> cfg ]
  ELSE [ ret |-> 0,
         cfg |-> [ f \in RequiredFields |->
                     IF f \in Keys(file) THEN json_value(file, f)
                     ELSE garbage ] ]

------------------------------------------------------------------------------
(* Telemetry.  Simulate_RealTimeData stands in for the meter, the BMS and  *)
(* the PCS; it overwrites V_meas, SOC and P_meas and nothing else.  Any    *)
(* sample of the grid below may arrive on a tick.                          *)

V_samples == { 159, 160, 161, 195, 196, 243, 250 }

SOC_samples == { 90, 95, 120, 540, 565, 570, 576 }

P_samples == { 0 - 50000, 0, 50000 }

Simulate_RealTimeData(status) ==
  { [ status EXCEPT !.V_meas = v, !.SOC = s, !.P_meas = p ] :
      v \in V_samples, s \in SOC_samples, p \in P_samples }

------------------------------------------------------------------------------
(* State machine *)

ZeroStatus ==
  [ V_meas |-> 0, SOC |-> 0, P_meas |-> 0,
    P_soc_charge_limit |-> 0, P_soc_discharge_limit |-> 0 ]

ZeroState == [ Ctrl_Mode |-> 0, integral_upper |-> 0, integral_lower |-> 0 ]

\* History of the present run of consecutive ticks in one active mode: the
\* active accumulator before the first tick of the run, the sum of the
\* voltage errors of its ticks, and their number.  Observes ctrl_state and
\* the telemetry; the program never reads it.
NoRun == [ base |-> 0, err |-> 0, len |-> 0 ]

RunAfterTick(old_run, old_state, mode, status, cfg) ==
  LET e == IF mode = 1
             THEN status.V_meas - (cfg.V_ref_upper + cfg.Deadband_upper)
             ELSE (cfg.V_ref_lower - cfg.Deadband_lower) - status.V_meas
  IN  IF mode \notin { 1, 2 } THEN NoRun
      ELSE IF mode = old_state.Ctrl_Mode
        THEN [ old_run EXCEPT !.err = @ + e, !.len = @ + 1 ]
      ELSE [ base |-> IF mode = 1 THEN old_state.integral_upper
                                  ELSE old_state.integral_lower,
             err |-> e, len |-> 1 ]

Init ==
  /\ \/ prog = "csv_config" /\ cfg_file \in CsvFiles
     \/ prog = "voltage_control" /\ cfg_file \in JsonFiles
  /\ pc = "start"
  /\ load_ret = << >>
  /\ warnings = 0
  /\ sys_cfg = ZeroCfg
  /\ realtime_status = ZeroStatus
  /\ ctrl_state = ZeroState
  /\ P_cmd = 0
  /\ pre_state = ZeroState
  /\ run = NoRun
  /\ tick = 0

\* main of voltage_control.cpp up to the test of load_configuration's result,
\* when no item is read through a null pointer
main_load ==
  /\ pc = "start" /\ prog = "voltage_control"
  /\ json_rejected(cfg_file) \/ RequiredFields \subseteq Keys(cfg_file)
  /\ LET r == load_configuration(cfg_file, sys_cfg, 0)
     IN  /\ sys_cfg' = r.cfg
         /\ load_ret' = << r.ret >>
         /\ pc' = IF r.ret # 0 THEN "exit" ELSE "init"
  /\ UNCHANGED << prog, cfg_file, warnings, realtime_status, ctrl_state,
                  P_cmd, pre_state, run, tick >>

\* the same call when a required item is absent from a present object:
\* ->valuedouble on NULL is undefined; the process traps, or the read
\* yields some value and the load goes on
main_load_null_item ==
  /\ pc = "start" /\ prog = "voltage_control"
  /\ ~json_rejected(cfg_file) /\ ~(RequiredFields \subseteq Keys(cfg_file))
  /\ \/ /\ pc' = "crash"
        /\ UNCHANGED << sys_cfg, load_ret >>
     \/ \E g \in GarbageValues :
          LET r == load_configuration(cfg_file, sys_cfg, g)
          IN  /\ sys_cfg' = r.cfg
              /\ load_ret' = << r.ret >>
              /\ pc' = "init"
  /\ UNCHANGED << prog, cfg_file, warnings, realtime_status, ctrl_state,
                  P_cmd, pre_state, run, tick >>

\* main: controller state initialisation before while(1)
main_init ==
  /\ pc = "init"
  /\ ctrl_state' = ZeroState
  /\ pc' = "loop"
  /\ UNCHANGED << prog, cfg_file, load_ret, warnings, sys_cfg,
                  realtime_status, P_cmd, pre_state, run, tick >>

\* one iteration of while(1): a whole Main_VoltageControlLoop call
Main_VoltageControlLoop ==
  /\ pc = "loop" /\ tick < MaxTicks
  /\ \E status1 \in Simulate_RealTimeData(realtime_status) :
     \E lim \in { Calculate_SOC_Power_Limits(status1.SOC, sys_cfg) } :
     \E status2 \in { [ status1 EXCEPT
                          !.P_soc_charge_limit = lim.charge_limit,
                          !.P_soc_discharge_limit = lim.discharge_limit ] } :
     \E state1 \in { [ ctrl_state EXCEPT
                         !.Ctrl_Mode =
                            Determine_CtrlMode(status2.V_meas, sys_cfg) ] } :
     \E r \in { ControlDispatch(status2, sys_cfg, state1) } :
           /\ realtime_status' = status2
           /\ ctrl_state' = r.state
           /\ P_cmd' = r.P_cmd_final
           /\ run' = RunAfterTick(run, ctrl_state, r.state.Ctrl_Mode,
                                  status2, sys_cfg)
  /\ pre_state' = ctrl_state
  /\ tick' = tick + 1
  /\ UNCHANGED << prog, cfg_file, pc, load_ret, warnings, sys_cfg >>

\* what fgets / strtok make of the file: a JSON document has no line of the
\* form key,value with a bare known key, so every entry is a malformed line
csv_text(file) ==
  IF file.wellformed
    THEN [ i \in 1..Len(file.lines) |->
             [ key |-> "{json}", value |-> 0, has_value |-> FALSE ] ]
    ELSE file.lines

\* main of the CSV program; both the .csv and the .json branch call
\* load_configuration_from_csv
csv_main ==
  /\ pc = "start" /\ prog = "csv_config"
  /\ IF cfg_file.ext \in { ".csv", ".json" }
       THEN LET r == load_configuration_from_csv(
                       [ cfg_file EXCEPT !.lines = csv_text(cfg_file) ],
                       sys_cfg)
            IN  /\ sys_cfg' = r.cfg
                /\ load_ret' = << r.ret >>
                /\ warnings' = r.warnings
                /\ pc' = IF r.ret # 0 THEN "exit" ELSE "done"
       ELSE /\ pc' = "exit"
            /\ UNCHANGED << sys_cfg, load_ret, warnings >>
  /\ UNCHANGED << prog, cfg_file, realtime_status, ctrl_state, P_cmd,
                  pre_state, run, tick >>

Next ==
  \/ main_load
  \/ main_load_null_item
  \/ main_init
  \/ Main_VoltageControlLoop
  \/ csv_main

Spec == Init /\ [][Next]_vars

------------------------------------------------------------------------------
(* Properties *)

\* at least one Main_VoltageControlLoop call has completed
Ticked == pc = "loop" /\ tick > 0

Mode == ctrl_state.Ctrl_Mode

Min2(a, b) == IF a < b THEN a ELSE b

Max2(a, b) == IF a > b THEN a ELSE b

UpperThreshold == sys_cfg.V_ref_upper + sys_cfg.Deadband_upper

LowerThreshold == sys_cfg.V_ref_lower - sys_cfg.Deadband_lower

\* the invariant the data model states for a configuration record
CfgValid(cfg) ==
  /\ cfg.V_ref_lower < cfg.V_ref_upper
  /\ 0 <= cfg.SOC_min /\ cfg.SOC_min < cfg.SOC_max
  /\ cfg.SOC_max <= 20 * charge_transition_width
  /\ \A f \in { "Deadband_upper", "Deadband_lower", "Kp_upper", "Ki_upper",
                "Kp_lower", "Ki_lower", "P_step_max", "P_charge_max",
                "P_discharge_max" } : cfg[f] >= 0

LimitsNonNegative(cfg) == cfg.P_charge_max >= 0 /\ cfg.P_discharge_max >= 0

\* every field of sys_cfg was read from the file and the record is valid
CfgLoadedValid == MissingFields(cfg_file) = {} /\ CfgValid(sys_cfg)

\* C1: after every tick the accumulator of each controller that was not the
\* active one on that tick is 0: integral_lower = 0 unless the mode is
\* UnderVoltage, integral_upper = 0 unless the mode is OverVoltage.
\* (Stated for a completely loaded, valid configuration.)
C1_InactiveAccumulatorZero ==
  (Ticked /\ CfgLoadedValid) =>
    /\ Mode # 2 => ctrl_state.integral_lower = 0
    /\ Mode # 1 => ctrl_state.integral_upper = 0

\* C2: every tick classified Normal emits command 0 and leaves both
\* accumulators at 0, whatever the accumulators and the mode were before.
C2_NormalTickResets ==
  (Ticked /\ Mode = 0) =>
    /\ P_cmd = 0
    /\ ctrl_state.integral_upper = 0
    /\ ctrl_state.integral_lower = 0

\* a Normal tick that follows an OverVoltage tick with a wound-up accumulator
C2_Witness ==
  /\ Ticked /\ Mode = 0
  /\ pre_state.Ctrl_Mode = 1 /\ pre_state.integral_upper > 0
  /\ ctrl_state.integral_upper = 0 /\ P_cmd = 0

\* C3: with a valid configuration the command of an OverVoltage tick is
\* >= 0 and the command of an UnderVoltage tick is <= 0, for any P_meas and
\* any accumulator value.
C3_CommandSign ==
  (Ticked /\ CfgValid(sys_cfg)) =>
    /\ Mode = 1 => P_cmd >= 0
    /\ Mode = 2 => P_cmd <= 0

\* both sign clamps have acted: an UnderVoltage tick while charging, or an
\* OverVoltage tick while discharging, commands 0
C3_Witness ==
  /\ Ticked /\ CfgValid(sys_cfg)
  /\ \/ Mode = 2 /\ realtime_status.P_meas > sys_cfg.P_step_max /\ P_cmd = 0
     \/ Mode = 1 /\ realtime_status.P_meas < 0 - sys_cfg.P_step_max
                 /\ P_cmd = 0

\* C4: the command stays inside the limits of the same tick: in OverVoltage
\* command <= min(P_charge_max, P_soc_charge_limit), in UnderVoltage
\* command >= -min(P_discharge_max, P_soc_discharge_limit), the SOC limits
\* being those of the tick's SOC; so no charging is commanded at
\* SOC >= SOC_max and no discharging at SOC <= SOC_min.  (Ratings >= 0.)
C4_CommandWithinLimits ==
  (Ticked /\ LimitsNonNegative(sys_cfg)) =>
    LET lim == Calculate_SOC_Power_Limits(realtime_status.SOC, sys_cfg)
    IN  /\ realtime_status.P_soc_charge_limit = lim.charge_limit
        /\ realtime_status.P_soc_discharge_limit = lim.discharge_limit
        /\ Mode = 1 =>
             P_cmd <= Min2(sys_cfg.P_charge_max, lim.charge_limit)
        /\ Mode = 2 =>
             P_cmd >= 0 - Min2(sys_cfg.P_discharge_max, lim.discharge_limit)
        /\ realtime_status.SOC >= sys_cfg.SOC_max => P_cmd <= 0
        /\ realtime_status.SOC <= sys_cfg.SOC_min => P_cmd >= 0

\* the SOC-derived ceiling, inside its transition band, is what binds
C4_Witness ==
  /\ Ticked /\ LimitsNonNegative(sys_cfg) /\ Mode = 1
  /\ realtime_status.P_soc_charge_limit > 0
  /\ realtime_status.P_soc_charge_limit < sys_cfg.P_charge_max
  /\ P_cmd = realtime_status.P_soc_charge_limit

\* C5 (as stated): on every OverVoltage tick command - P_meas <= P_step_max
\* and on every UnderVoltage tick P_meas - command <= P_step_max, for every
\* P_meas and every accumulator value.  (Stated for a completely loaded,
\* valid configuration.)
C5_StepBoundsMove ==
  (Ticked /\ CfgLoadedValid) =>
    /\ Mode = 1 => P_cmd - realtime_status.P_meas <= sys_cfg.P_step_max
    /\ Mode = 2 => realtime_status.P_meas - P_cmd <= sys_cfg.P_step_max

\* C5 (amended): on every OverVoltage tick the command is 0 or
\* command - P_meas <= P_step_max; on every UnderVoltage tick the command
\* is 0 or P_meas - command <= P_step_max.
C5_StepBoundsMoveUnlessZero ==
  Ticked =>
    /\ Mode = 1 =>
         P_cmd = 0 \/ P_cmd - realtime_status.P_meas <= sys_cfg.P_step_max
    /\ Mode = 2 =>
         P_cmd = 0 \/ realtime_status.P_meas - P_cmd <= sys_cfg.P_step_max

\* the step limit is what binds, in each direction
C5_Witness ==
  /\ Ticked
  /\ \/ Mode = 1 /\ P_cmd > 0
                 /\ P_cmd - realtime_status.P_meas = sys_cfg.P_step_max
     \/ Mode = 2 /\ P_cmd < 0
                 /\ realtime_status.P_meas - P_cmd = sys_cfg.P_step_max

\* C6: the recorded mode is OverVoltage for every V_meas strictly above
\* V_ref_upper + Deadband_upper, Normal at exactly that value (given
\* V_ref_lower < V_ref_upper and non-negative dead-bands), and always one
\* of the three modes.
C6_OverVoltageBoundary ==
  Ticked =>
    /\ realtime_status.V_meas > UpperThreshold => Mode = 1
    /\ ( /\ realtime_status.V_meas = UpperThreshold
         /\ sys_cfg.V_ref_lower < sys_cfg.V_ref_upper
         /\ sys_cfg.Deadband_upper >= 0 /\ sys_cfg.Deadband_lower >= 0 )
         => Mode = 0
    /\ Mode \in { 0, 1, 2 }

\* a tick measured exactly at the upper boundary
C6_Witness ==
  /\ Ticked
  /\ sys_cfg.V_ref_lower < sys_cfg.V_ref_upper
  /\ realtime_status.V_meas = UpperThreshold
  /\ Mode = 0

\* C7: a tick with V_meas <= V_enter_lower that is not over-voltage is
\* Normal with command 0 even below V_ref_lower - Deadband_lower; the mode
\* is UnderVoltage exactly when V_enter_lower < V_meas <
\* V_ref_lower - Deadband_lower and V_meas is not over-voltage.
C7_EntryGuard ==
  Ticked =>
    /\ ( /\ realtime_status.V_meas <= sys_cfg.V_enter_lower
         /\ ~(realtime_status.V_meas > UpperThreshold) )
         => (Mode = 0 /\ P_cmd = 0)
    /\ Mode = 2 <=>
         ( /\ sys_cfg.V_enter_lower < realtime_status.V_meas
           /\ realtime_status.V_meas < LowerThreshold
           /\ ~(realtime_status.V_meas > UpperThreshold) )

\* a voltage below the lower threshold and at or below the entry threshold
C7_Witness ==
  /\ Ticked
  /\ realtime_status.V_meas <= sys_cfg.V_enter_lower
  /\ realtime_status.V_meas < LowerThreshold
  /\ Mode = 0 /\ P_cmd = 0

\* C8: outside the transition bands the limits are saturated:
\* discharge_limit = 0 for soc <= SOC_min and = P_discharge_max for
\* soc >= SOC_min + 0.05; charge_limit = 0 for soc >= SOC_max and
\* = P_charge_max for soc <= SOC_max - 0.05 (ratings >= 0); both limits
\* are >= 0 for every soc.
C8_SaturatedLimits ==
  Ticked =>
    /\ realtime_status.P_soc_charge_limit >= 0
    /\ realtime_status.P_soc_discharge_limit >= 0
    /\ LimitsNonNegative(sys_cfg) =>
         /\ realtime_status.SOC <= sys_cfg.SOC_min
              => realtime_status.P_soc_discharge_limit = 0
         /\ realtime_status.SOC
              >= sys_cfg.SOC_min + discharge_transition_width
              => realtime_status.P_soc_discharge_limit
                   = sys_cfg.P_discharge_max
         /\ realtime_status.SOC >= sys_cfg.SOC_max
              => realtime_status.P_soc_charge_limit = 0
         /\ realtime_status.SOC
              <= sys_cfg.SOC_max - charge_transition_width
              => realtime_status.P_soc_charge_limit = sys_cfg.P_charge_max

\* soc 0.96 against SOC_max 0.95, and a soc exactly at SOC_min + 0.05
C8_Witness ==
  /\ Ticked /\ sys_cfg.P_charge_max > 0 /\ sys_cfg.P_discharge_max > 0
  /\ \/ /\ realtime_status.SOC = 576 /\ sys_cfg.SOC_max = 570
        /\ realtime_status.P_soc_charge_limit = 0
     \/ /\ realtime_status.SOC
             = sys_cfg.SOC_min + discharge_transition_width
        /\ realtime_status.P_soc_discharge_limit = sys_cfg.P_discharge_max

\* V_meas = 250, P_meas = 0, P_soc_charge_limit = 125 kW, accumulator 0 on
\* entry, under V_ref_upper = 241, Deadband_upper = 2, Kp_upper = 1,
\* Ki_upper = 0.1, P_step_max = 10 kW, P_charge_max = 125 kW
ScenarioA ==
  /\ Ticked
  /\ sys_cfg.V_ref_upper = 241 /\ sys_cfg.Deadband_upper = 2
  /\ sys_cfg.Kp_upper = 1000 /\ sys_cfg.Ki_upper = 100
  /\ sys_cfg.P_step_max = 10000 /\ sys_cfg.P_charge_max = 125000
  /\ realtime_status.V_meas = 250 /\ realtime_status.P_meas = 0
  /\ realtime_status.P_soc_charge_limit = 125000
  /\ pre_state.integral_upper = 0

\* C9: an OverVoltage tick entered with integral_upper = I and error
\* e = V_meas - (V_ref_upper + Deadband_upper) leaves integral_upper =
\* I + e*Ki_upper and emits max(0, min(min(e*Kp_upper + I + e*Ki_upper,
\* P_step_max) + P_meas, P_soc_charge_limit, P_charge_max)); Scenario A
\* gives mode OverVoltage, integral_upper 0.7 and command 7.7.
C9_OverVoltageStep ==
  /\ (Ticked /\ Mode = 1) =>
       LET I == pre_state.integral_upper
           e == realtime_status.V_meas - UpperThreshold
           acc == I + e * sys_cfg.Ki_upper
           inc == Min2(e * sys_cfg.Kp_upper + acc, sys_cfg.P_step_max)
       IN  /\ ctrl_state.integral_upper = acc
           /\ P_cmd = Max2(0, Min2(Min2(inc + realtime_status.P_meas,
                                        realtime_status.P_soc_charge_limit),
                                   sys_cfg.P_charge_max))
  /\ ScenarioA =>
       (Mode = 1 /\ ctrl_state.integral_upper = 700 /\ P_cmd = 7700)

\* Scenario A has been stepped
C9_Witness == ScenarioA /\ Mode = 1 /\ P_cmd = 7700

\* a loader has been called on the file and the process went on or stopped
LoaderCalled ==
  /\ pc # "start"
  /\ prog = "voltage_control" \/ cfg_file.ext \in { ".csv", ".json" }

\* C10: loading does not return success when one of the 14 required fields
\* is absent from the source, and returns success for a source holding every
\* required field plus unknown ones; for the CSV and the JSON loader.
C10_MissingFieldFails ==
  LoaderCalled =>
    /\ MissingFields(cfg_file) # {} => load_ret # << 0 >>
    /\ ( /\ cfg_file.readable
         /\ prog = "voltage_control" => ~json_rejected(cfg_file)
         /\ prog = "csv_config" => ~cfg_file.wellformed
         /\ MissingFields(cfg_file) = {}
         /\ UnknownKeys(cfg_file) # {} ) => load_ret = << 0 >>

\* the file cannot be opened, is not JSON, or lacks a required object or field
FileError(file) == json_rejected(file) \/ MissingFields(file) # {}

\* the loaded record has inverted thresholds
RangeViolation(cfg) ==
  cfg.V_ref_lower >= cfg.V_ref_upper \/ cfg.SOC_min >= cfg.SOC_max

\* the control program is in, or has been in, its tick loop
InTickLoop == pc = "loop" \/ tick > 0

\* C11: when loading meets a ConfigError (unreadable file, parse error,
\* missing field, or inverted thresholds V_ref_lower >= V_ref_upper or
\* SOC_min >= SOC_max) the control program stops at startup and
\* Main_VoltageControlLoop never runs.
C11_ConfigErrorNeverLoops ==
  ( /\ prog = "voltage_control"
    /\ FileError(cfg_file) \/ (pc # "start" /\ RangeViolation(sys_cfg)) )
    => ~InTickLoop

\* C11, the part the code keeps: a load that returns an error (file not
\* opened, not parsed, or lacking one of the three objects) ends the process
\* before the loop.
C11_RejectedFileNeverLoops ==
  (prog = "voltage_control" /\ json_rejected(cfg_file)) => ~InTickLoop

\* every SOC in [0, 1]
SocGrid == 0 .. (20 * charge_transition_width)

\* the largest change of a limit between two neighbouring grid points of soc
\* when the curve has no jump: rating * (pi / 2) / width, under 53/1000 of
\* the rating, plus one watt of rounding
NoJump(a, b, rating) ==
  1000 * (IF a > b THEN a - b ELSE b - a) <= 53 * rating + 1000

\* C12: over the grid of soc values in [0,1] the discharge limit is
\* monotonically non-decreasing in soc and the charge limit monotonically
\* non-increasing, and each meets its saturated value at both ends of its
\* 0.05-wide band with no jump (0 at one end, the full rating at the other).
\* The curve of the loaded configuration is walked over the whole grid when
\* the loop is entered (the configuration does not change afterwards); the
\* limits stored by a tick are the curve's values at the tick's soc.
C12_MonotoneLimits ==
  /\ (pc = "loop" /\ tick = 0 /\ LimitsNonNegative(sys_cfg)) =>
       /\ \A s \in SocGrid \ { 20 * charge_transition_width } :
            \A a \in { Calculate_SOC_Power_Limits(s, sys_cfg) } :
            \A b \in { Calculate_SOC_Power_Limits(s + 1, sys_cfg) } :
              /\ a.discharge_limit <= b.discharge_limit
              /\ a.charge_limit >= b.charge_limit
              /\ NoJump(a.discharge_limit, b.discharge_limit,
                        sys_cfg.P_discharge_max)
              /\ NoJump(a.charge_limit, b.charge_limit, sys_cfg.P_charge_max)
       /\ LET lo == Calculate_SOC_Power_Limits(sys_cfg.SOC_min, sys_cfg)
              hi == Calculate_SOC_Power_Limits(sys_cfg.SOC_max, sys_cfg)
              lo_end == Calculate_SOC_Power_Limits(
                          sys_cfg.SOC_min + discharge_transition_width,
                          sys_cfg)
              hi_start == Calculate_SOC_Power_Limits(
                            sys_cfg.SOC_max - charge_transition_width,
                            sys_cfg)
          IN  /\ lo.discharge_limit = 0
              /\ lo_end.discharge_limit = sys_cfg.P_discharge_max
              /\ hi.charge_limit = 0
              /\ hi_start.charge_limit = sys_cfg.P_charge_max
  /\ (Ticked /\ LimitsNonNegative(sys_cfg)) =>
       \A lim \in { Calculate_SOC_Power_Limits(realtime_status.SOC,
                                                sys_cfg) } :
         /\ realtime_status.P_soc_charge_limit = lim.charge_limit
         /\ realtime_status.P_soc_discharge_limit = lim.discharge_limit

\* a soc strictly inside a transition band, its limit strictly between 0
\* and the rating
C12_Witness ==
  /\ Ticked /\ LimitsNonNegative(sys_cfg)
  /\ sys_cfg.SOC_max - charge_transition_width < realtime_status.SOC
  /\ realtime_status.SOC < sys_cfg.SOC_max
  /\ 0 < realtime_status.P_soc_charge_limit
  /\ realtime_status.P_soc_charge_limit < sys_cfg.P_charge_max

\* C13: on every tick whose mode is OverVoltage (UnderVoltage) while the
\* previous tick's mode was different, integral_upper (integral_lower) is 0
\* when the controller step begins, so after the tick it is exactly
\* error * Ki of that tick; for every telemetry sequence.  (Stated for a
\* completely loaded, valid configuration.)
C13_CleanReentry ==
  (Ticked /\ CfgLoadedValid) =>
    /\ (Mode = 1 /\ pre_state.Ctrl_Mode # 1) =>
         /\ pre_state.integral_upper = 0
         /\ ctrl_state.integral_upper
              = (realtime_status.V_meas - UpperThreshold) * sys_cfg.Ki_upper
    /\ (Mode = 2 /\ pre_state.Ctrl_Mode # 2) =>
         /\ pre_state.integral_lower = 0
         /\ ctrl_state.integral_lower
              = (LowerThreshold - realtime_status.V_meas) * sys_cfg.Ki_lower

\* a tick has just completed
TickStep == tick' # tick

\* C14: an OverVoltage tick changes integral_upper only and leaves
\* integral_lower as it was before the tick; an UnderVoltage tick changes
\* integral_lower only and leaves integral_upper as it was; no tick changes
\* the configuration record.
C14_ActiveTickFrame ==
  [][ TickStep =>
        /\ ctrl_state'.Ctrl_Mode = 1 =>
             ctrl_state'.integral_lower = ctrl_state.integral_lower
        /\ ctrl_state'.Ctrl_Mode = 2 =>
             ctrl_state'.integral_upper = ctrl_state.integral_upper
        /\ sys_cfg' = sys_cfg ]_vars

\* an OverVoltage tick that found integral_lower wound up and left it so,
\* while moving integral_upper
C14_Witness ==
  /\ Ticked /\ Mode = 1
  /\ pre_state.integral_lower > 0
  /\ ctrl_state.integral_lower = pre_state.integral_lower
  /\ ctrl_state.integral_upper # pre_state.integral_upper

\* C15: the active accumulator is never clamped: after a run of n
\* consecutive OverVoltage ticks with errors e_1..e_n, integral_upper is its
\* value before the first of them plus Ki_upper * (e_1 + ... + e_n), also
\* while the command is saturated; likewise integral_lower in UnderVoltage.
\* States with integral_upper above P_step_max and P_charge_max are reached.
C15_AccumulatorUnclamped ==
  Ticked =>
    /\ Mode = 1 =>
         ctrl_state.integral_upper = run.base + sys_cfg.Ki_upper * run.err
    /\ Mode = 2 =>
         ctrl_state.integral_lower = run.base + sys_cfg.Ki_lower * run.err

\* two or more OverVoltage ticks in a row, the command held at P_charge_max,
\* the accumulator above both P_step_max and P_charge_max
C15_Witness ==
  /\ Ticked /\ CfgLoadedValid /\ Mode = 1 /\ run.len >= 2
  /\ sys_cfg.Ki_upper > 0
  /\ P_cmd = sys_cfg.P_charge_max
  /\ ctrl_state.integral_upper > sys_cfg.P_step_max
  /\ ctrl_state.integral_upper > sys_cfg.P_charge_max

\* C16: with Ki_upper >= 0 and Ki_lower >= 0 both accumulators are >= 0 in
\* every reachable state; the error of every active tick is strictly
\* positive, so with Ki > 0 the active accumulator strictly increases on
\* every active tick.
C16_AccumulatorsNonNegative ==
  /\ (sys_cfg.Ki_upper >= 0 /\ sys_cfg.Ki_lower >= 0) =>
       (ctrl_state.integral_upper >= 0 /\ ctrl_state.integral_lower >= 0)
  /\ (Ticked /\ Mode = 1) =>
       /\ realtime_status.V_meas - UpperThreshold > 0
       /\ sys_cfg.Ki_upper > 0 =>
            ctrl_state.integral_upper > pre_state.integral_upper
  /\ (Ticked /\ Mode = 2) =>
       /\ LowerThreshold - realtime_status.V_meas > 0
       /\ sys_cfg.Ki_lower > 0 =>
            ctrl_state.integral_lower > pre_state.integral_lower

\* a second UnderVoltage tick in a row grows an accumulator already positive
C16_Witness ==
  /\ Ticked /\ Mode = 2 /\ pre_state.Ctrl_Mode = 2
  /\ sys_cfg.Ki_lower > 0
  /\ pre_state.integral_lower > 0
  /\ ctrl_state.integral_lower > pre_state.integral_lower

\* the classification as a function of V_meas and the configuration alone
ModeOf(v, cfg) ==
  IF v > cfg.V_ref_upper + cfg.Deadband_upper THEN 1
  ELSE IF v > cfg.V_enter_lower /\ v < cfg.V_ref_lower - cfg.Deadband_lower
    THEN 2
  ELSE 0

\* C17: the mode recorded after a tick is a function of that tick's V_meas
\* and the configuration only, whatever the previous mode, the accumulators,
\* SOC and P_meas were (no hysteresis); it is always one of 0, 1, 2, so the
\* default branch of the dispatch is never taken.
C17_ModeFromVoltageOnly ==
  Ticked =>
    /\ Mode = ModeOf(realtime_status.V_meas, sys_cfg)
    /\ Mode \in { 0, 1, 2 }

\* a tick exactly at the upper threshold right after an OverVoltage tick
\* with a wound-up accumulator is Normal: the earlier mode does not hold on
C17_Witness ==
  /\ Ticked
  /\ pre_state.Ctrl_Mode = 1 /\ pre_state.integral_upper > 0
  /\ realtime_status.V_meas = UpperThreshold
  /\ Mode = 0

====
